---- MODULE Spec2Model ----
(***************************************************************************)
(* A model of the Articy importer plugin for Unreal: the editor module's   *)
(* queued import (ArticyEditorModule.cpp), its import status check, its    *)
(* package lookup, the plugin settings' package load settings              *)
(* (ArticyPluginSettings.cpp), the global variables code generator         *)
(* (GlobalVarsGenerator.cpp) and the object tooltip's image                *)
(* (SArticyObjectToolTip.cpp).                                             *)
(***************************************************************************)
EXTENDS Integers, Sequences, FiniteSets, TLC

VARIABLES
    \* FArticyEditorModule and FEditorDelegates::EndPIE
    bIsImportQueued,        \* FArticyEditorModule::bIsImportQueued
    QueuedImportHandle,     \* FArticyEditorModule::QueuedImportHandle, 0 = invalid handle
    EndPIE,                 \* invocation list of FEditorDelegates::EndPIE (handles, in order of AddRaw)
    NextHandleID,           \* the next FDelegateHandle the engine hands out
    ReimportChangesCalls,   \* calls of ReimportChanges made by the last operation
    lastCall,               \* the most recent of QueueImport / UnqueueImport / TriggerQueuedImport
    lastOp,                 \* the last operation or event
    wasQueued,              \* bIsImportQueued when the last operation started
    IsImportQueuedResult,   \* what the last IsImportQueued() returned
    \* what CheckImportStatusValidity reads, and what OnGeneratedCodeChanged does
    ImportData,             \* TRUE: EnsureImportDataAsset yields an import data asset
    NumFileNames,           \* files FindFiles finds in the generated source folder
    ArticyAssets,           \* assets under the generated folder; TRUE: GetAsset() is non-null
    Validity,               \* the status the last check returned
    DialogShown,            \* the Yes/No dialog was opened by the last OnGeneratedCodeChanged
    ForceCompleteReimportCalls, \* calls of ForceCompleteReimport it made
    DialogAnswer,           \* the answer the user would give to the dialog
    checkOp,                \* the last operation of this part
    \* what GetPackagesSlow reads and returns
    EngineVersion,          \* <<ENGINE_MAJOR_VERSION, ENGINE_MINOR_VERSION>> of the build
    AssetRegistry,          \* the registry's assets: [Class, Loads]; an asset's pointer is its index
    Packages,               \* the array GetPackagesSlow returned; 0 = nullptr
    packagesOp,             \* the last operation of this part
    \* UArticyPluginSettings and the original UArticyDatabase
    PackageLoadSettings,    \* per settings object ("CDO", "Instance"): TMap<FString, bool>
    DatabaseValid,          \* UArticyDatabase::GetMutableOriginal() is valid
    ImportedPackages,       \* the database's packages in order: [Name, bIsDefaultPackage]
    Self,                   \* the object UpdatePackageSettings ran on, when it was the last operation
    PrevNames,              \* the keys of that object's PackageLoadSettings before the call
    settingsOp,             \* the last operation of this part
    \* GlobalVarsGenerator::GenerateCode
    Data,                   \* the UArticyImportData the generator is given, or "nullptr"
    OutFile,                \* the caller's FString passed by reference
    OutFileBefore,          \* OutFile when the last GenerateCode began
    GeneratedFiles,         \* the files the last GenerateCode wrote
    genOp,                  \* the last operation of this part
    \* SArticyObjectToolTip
    ObjectToDisplay,        \* the Articy object the tooltip is made for
    TooltipBrush,           \* SArticyObjectToolTip::TooltipBrush
    PreviewLookups,         \* calls of RetrievePreviewImage made by Construct
    SpeakerLookups,         \* calls of RetrieveSpeakerPreviewImage made by Construct
    TypeImageLookups,       \* calls of GetArticyTypeImage made by Construct
    TooltipImage,           \* what the last GetTooltipImage() pointed to
    tooltipOp               \* the last operation of this part

moduleVars == <<bIsImportQueued, QueuedImportHandle, EndPIE, NextHandleID>>
queueVars == <<bIsImportQueued, QueuedImportHandle, EndPIE, NextHandleID,
               ReimportChangesCalls, lastCall, lastOp, wasQueued, IsImportQueuedResult>>

envVars == <<ImportData, NumFileNames, ArticyAssets>>
validityVars == <<ImportData, NumFileNames, ArticyAssets, Validity, DialogShown,
                  ForceCompleteReimportCalls, DialogAnswer, checkOp>>

packagesVars == <<EngineVersion, AssetRegistry, Packages, packagesOp>>
settingsVars == <<PackageLoadSettings, DatabaseValid, ImportedPackages, Self, PrevNames, settingsOp>>
genVars == <<Data, OutFile, OutFileBefore, GeneratedFiles, genOp>>

tooltipVars == <<ObjectToDisplay, TooltipBrush, PreviewLookups, SpeakerLookups,
                 TypeImageLookups, TooltipImage, tooltipOp>>

vars == <<queueVars, validityVars, packagesVars, settingsVars, genVars, tooltipVars>>

notQueue == <<validityVars, packagesVars, settingsVars, genVars, tooltipVars>>
notValidity == <<queueVars, packagesVars, settingsVars, genVars, tooltipVars>>
notPackages == <<queueVars, validityVars, settingsVars, genVars, tooltipVars>>
notSettings == <<queueVars, validityVars, packagesVars, genVars, tooltipVars>>
notGen == <<queueVars, validityVars, packagesVars, settingsVars, tooltipVars>>
notTooltip == <<queueVars, validityVars, packagesVars, settingsVars, genVars>>

Range(s) == {s[i] : i \in 1..Len(s)}

(***************************************************************************)
(* Queued import: ArticyEditorModule.cpp                                   *)
(***************************************************************************)

\* the number of delegate handles the model lets the engine hand out
MaxHandles == 3

\* the module's fields and the delegate's invocation list, as one value
Module ==
    [bIsImportQueued |-> bIsImportQueued,
     QueuedImportHandle |-> QueuedImportHandle,
     EndPIE |-> EndPIE,
     NextHandleID |-> NextHandleID,
     ReimportChangesCalls |-> 0,
     lastCall |-> lastCall]

\* FEditorDelegates::EndPIE.Remove(Handle): an invalid or unknown handle removes nothing
RemoveHandle(list, h) == SelectSeq(list, LAMBDA x : x # h)

\* bIsImportQueued = true; ...; QueuedImportHandle = EndPIE.AddRaw(this, &TriggerQueuedImport)
QueueImport(m) ==
    [m EXCEPT !.bIsImportQueued = TRUE,
              !.QueuedImportHandle = m.NextHandleID,
              !.EndPIE = Append(m.EndPIE, m.NextHandleID),
              !.NextHandleID = m.NextHandleID + 1,
              !.lastCall = "QueueImport"]

\* a slip: the flag is not reset
UnqueueImport_KeepsFlag(m) ==
    [m EXCEPT !.EndPIE = RemoveHandle(m.EndPIE, m.QueuedImportHandle),
              !.QueuedImportHandle = 0,
              !.lastCall = "UnqueueImport"]

\* EndPIE.Remove(QueuedImportHandle); QueuedImportHandle.Reset(); bIsImportQueued = false
UnqueueImport(m) ==
    [m EXCEPT !.EndPIE = RemoveHandle(m.EndPIE, m.QueuedImportHandle),
              !.QueuedImportHandle = 0,
              !.bIsImportQueued = FALSE,
              !.lastCall = "UnqueueImport"]

\* FArticyEditorFunctionLibrary::ReimportChanges(); UnqueueImport()
TriggerQueuedImport(m) ==
    [UnqueueImport([m EXCEPT !.ReimportChangesCalls = m.ReimportChangesCalls + 1])
        EXCEPT !.lastCall = "TriggerQueuedImport"]

\* FEditorDelegates::EndPIE.Broadcast: the engine walks the invocation list as it
\* was when the broadcast began, last added first, and skips a handler that was
\* removed in the meantime. Every handler is TriggerQueuedImport of the module.
RECURSIVE BroadcastEndPIE(_, _)
BroadcastEndPIE(m, pending) ==
    IF pending = <<>> THEN m
    ELSE LET h == pending[Len(pending)]
             rest == SubSeq(pending, 1, Len(pending) - 1)
         IN  BroadcastEndPIE(IF h \in Range(m.EndPIE) THEN TriggerQueuedImport(m) ELSE m, rest)

\* the module's state after an operation that left it as m
Store(m, op) ==
    /\ bIsImportQueued' = m.bIsImportQueued
    /\ QueuedImportHandle' = m.QueuedImportHandle
    /\ EndPIE' = m.EndPIE
    /\ NextHandleID' = m.NextHandleID
    /\ ReimportChangesCalls' = m.ReimportChangesCalls
    /\ lastCall' = m.lastCall
    /\ lastOp' = op
    /\ wasQueued' = bIsImportQueued

InitQueue ==
    /\ bIsImportQueued = FALSE
    /\ QueuedImportHandle = 0
    /\ EndPIE = <<>>
    /\ NextHandleID = 1
    /\ ReimportChangesCalls = 0
    /\ lastCall = "none"
    /\ lastOp = "none"
    /\ wasQueued = FALSE
    /\ IsImportQueuedResult = FALSE

CallIsImportQueued ==
    /\ IsImportQueuedResult' = bIsImportQueued
    /\ lastOp' = "IsImportQueued"
    /\ wasQueued' = bIsImportQueued
    /\ ReimportChangesCalls' = 0
    /\ UNCHANGED <<moduleVars, lastCall>>
    /\ UNCHANGED notQueue

CallQueueImport ==
    /\ NextHandleID <= MaxHandles
    /\ Store(QueueImport(Module), "QueueImport")
    /\ UNCHANGED <<IsImportQueuedResult, notQueue>>

CallUnqueueImport ==
    /\ Store(UnqueueImport(Module), "UnqueueImport")
    /\ UNCHANGED <<IsImportQueuedResult, notQueue>>

CallTriggerQueuedImport ==
    /\ Store(TriggerQueuedImport(Module), "TriggerQueuedImport")
    /\ UNCHANGED <<IsImportQueuedResult, notQueue>>

\* the editor leaves play mode: FEditorDelegates::EndPIE is broadcast
EndPIEEvent ==
    /\ Store(BroadcastEndPIE(Module, EndPIE), "EndPIE")
    /\ UNCHANGED <<IsImportQueuedResult, notQueue>>

NextQueue ==
    \/ CallIsImportQueued
    \/ CallQueueImport
    \/ CallUnqueueImport
    \/ CallTriggerQueuedImport
    \/ EndPIEEvent


(***************************************************************************)
(* C1: after QueueImport, the next EndPIE event calls ReimportChanges      *)
(* exactly once, leaves no import queued and no handler registered; an     *)
(* EndPIE event with no import queued calls ReimportChanges not at all.    *)
(***************************************************************************)
C1_QueuedImportRunsOnce ==
    lastOp = "EndPIE" =>
        /\ ReimportChangesCalls = (IF wasQueued THEN 1 ELSE 0)
        /\ ~bIsImportQueued
        /\ EndPIE = <<>>

(***************************************************************************)
(* C2: IsImportQueued() is true exactly when the most recent call among    *)
(* QueueImport, UnqueueImport and TriggerQueuedImport was QueueImport      *)
(* (false initially), and IsImportQueued returns the flag and changes      *)
(* nothing of the module.                                                  *)
(***************************************************************************)
C2_IsImportQueuedIffLastCallQueued ==
    /\ [](bIsImportQueued = (lastCall = "QueueImport"))
    /\ [][lastOp' = "IsImportQueued" =>
            /\ IsImportQueuedResult' = (lastCall = "QueueImport")
            /\ UNCHANGED <<moduleVars, lastCall>>]_vars

C2_Witness ==
    /\ lastOp = "IsImportQueued"
    /\ IsImportQueuedResult
    /\ lastCall = "QueueImport"
    /\ Len(EndPIE) = 2

(***************************************************************************)
(* Import status: ArticyEditorModule.cpp                                   *)
(***************************************************************************)

\* the most files and assets the model puts into the folders
MaxFiles == 6
MaxAssets == 4

\* "if we have less than 5 code files we are missing at least one"
MinCodeFiles == 5
\* "if we have less than 3 assets ... no package, no database or no global variables"
MinArticyAssets == 3

EImportStatusValidity == {"Valid", "ImportDataAssetMissing", "FileMissing", "ImportantAssetMissing"}

BoolSeqs(n) == UNION {[1..k -> BOOLEAN] : k \in 0..n}

\* a slip: the assets are counted, never loaded
CheckImportStatusValidity_NoLoad(importData, numFiles, assets) ==
    IF ~importData THEN "ImportDataAssetMissing"
    ELSE IF numFiles < MinCodeFiles THEN "FileMissing"
    ELSE IF Len(assets) < MinArticyAssets THEN "ImportantAssetMissing"
    ELSE "Valid"

\* a slip: the files are counted before the import data asset is looked at
CheckImportStatusValidity_FilesFirst(importData, numFiles, assets) ==
    IF numFiles < MinCodeFiles THEN "FileMissing"
    ELSE IF ~importData THEN "ImportDataAssetMissing"
    ELSE IF \E i \in 1..Len(assets) : ~assets[i] THEN "FileMissing"
    ELSE IF Len(assets) < MinArticyAssets THEN "ImportantAssetMissing"
    ELSE "Valid"

\* a slip: two assets pass for the package, the database and the global variables
CheckImportStatusValidity_TwoAssets(importData, numFiles, assets) ==
    IF ~importData THEN "ImportDataAssetMissing"
    ELSE IF numFiles < MinCodeFiles THEN "FileMissing"
    ELSE IF \E i \in 1..Len(assets) : ~assets[i] THEN "FileMissing"
    ELSE IF Len(assets) < MinArticyAssets - 1 THEN "ImportantAssetMissing"
    ELSE "Valid"

CheckImportStatusValidity(importData, numFiles, assets) ==
    IF ~importData THEN "ImportDataAssetMissing"
    ELSE IF numFiles < MinCodeFiles THEN "FileMissing"
    \* an asset that exists but does not load: the class is probably missing
    ELSE IF \E i \in 1..Len(assets) : ~assets[i] THEN "FileMissing"
    ELSE IF Len(assets) < MinArticyAssets THEN "ImportantAssetMissing"
    ELSE "Valid"

\* a slip: any status but Valid asks for the reimport
OnGeneratedCodeChanged_AnyError(validity, answer) ==
    IF validity # "Valid"
    THEN [DialogShown |-> TRUE, ForceCompleteReimportCalls |-> IF answer = "Yes" THEN 1 ELSE 0]
    ELSE [DialogShown |-> FALSE, ForceCompleteReimportCalls |-> 0]

\* what OnGeneratedCodeChanged does with the status and the user's answer
OnGeneratedCodeChanged(validity, answer) ==
    IF validity = "FileMissing"
    THEN [DialogShown |-> TRUE, ForceCompleteReimportCalls |-> IF answer = "Yes" THEN 1 ELSE 0]
    ELSE [DialogShown |-> FALSE, ForceCompleteReimportCalls |-> 0]

InitValidity ==
    /\ ImportData \in BOOLEAN
    /\ NumFileNames \in 0..MaxFiles
    /\ ArticyAssets \in BoolSeqs(MaxAssets)
    /\ Validity = "none"
    /\ DialogShown = FALSE
    /\ ForceCompleteReimportCalls = 0
    /\ DialogAnswer \in {"Yes", "No"}
    /\ checkOp = "none"

CallCheckImportStatusValidity ==
    /\ Validity' = CheckImportStatusValidity(ImportData, NumFileNames, ArticyAssets)
    /\ checkOp' = "CheckImportStatusValidity"
    /\ DialogShown' = FALSE
    /\ ForceCompleteReimportCalls' = 0
    /\ UNCHANGED <<envVars, DialogAnswer, notValidity>>

\* the directory watcher reports a change in the generated source folder
CallOnGeneratedCodeChanged ==
    LET v == CheckImportStatusValidity(ImportData, NumFileNames, ArticyAssets)
        r == OnGeneratedCodeChanged(v, DialogAnswer)
    IN  /\ Validity' = v
        /\ DialogShown' = r.DialogShown
        /\ ForceCompleteReimportCalls' = r.ForceCompleteReimportCalls
        /\ checkOp' = "OnGeneratedCodeChanged"
        /\ UNCHANGED <<envVars, DialogAnswer, notValidity>>

NextValidity ==
    \/ CallCheckImportStatusValidity
    \/ CallOnGeneratedCodeChanged

AllLoad == \A i \in 1..Len(ArticyAssets) : ArticyAssets[i]

(***************************************************************************)
(* C3: the check returns Valid exactly when the import data asset exists,  *)
(* the source folder holds at least 5 files, every asset found loads and   *)
(* at least 3 assets are found; otherwise one of the three other statuses. *)
(***************************************************************************)
C3_ValidIffAllFour ==
    checkOp # "none" =>
        /\ Validity \in EImportStatusValidity
        /\ (Validity = "Valid") <=>
               (ImportData /\ NumFileNames >= 5 /\ AllLoad /\ Len(ArticyAssets) >= 3)

C3_Witness ==
    /\ checkOp = "CheckImportStatusValidity"
    /\ Validity = "Valid"
    /\ NumFileNames = 5
    /\ Len(ArticyAssets) = 3

(***************************************************************************)
(* C4: a missing import data asset gives ImportDataAssetMissing whatever   *)
(* the counts are; otherwise fewer than 5 files give FileMissing whatever  *)
(* the assets are.                                                         *)
(***************************************************************************)
C4_CheckPriority ==
    checkOp # "none" =>
        /\ (~ImportData => Validity = "ImportDataAssetMissing")
        /\ (ImportData /\ NumFileNames < 5 => Validity = "FileMissing")

C4_Witness ==
    /\ checkOp = "CheckImportStatusValidity"
    /\ ~ImportData
    /\ NumFileNames < 5
    /\ Len(ArticyAssets) < 3
    /\ Validity = "ImportDataAssetMissing"

(***************************************************************************)
(* C5, as claimed: with the import data asset and at least 5 files, fewer  *)
(* than 3 assets found give ImportantAssetMissing.                         *)
(***************************************************************************)
C5_FewAssetsGiveImportantAssetMissing ==
    (checkOp # "none" /\ ImportData /\ NumFileNames >= 5 /\ Len(ArticyAssets) < 3)
        => Validity = "ImportantAssetMissing"

(***************************************************************************)
(* C5, amended: with the import data asset and at least 5 files, fewer     *)
(* than 3 assets found give ImportantAssetMissing when every one of them   *)
(* loads, and FileMissing when one of them does not load.                  *)
(***************************************************************************)
C5_FewLoadedAssetsGiveImportantAssetMissing ==
    (checkOp # "none" /\ ImportData /\ NumFileNames >= 5 /\ Len(ArticyAssets) < 3)
        => Validity = (IF AllLoad THEN "ImportantAssetMissing" ELSE "FileMissing")

C5_Witness ==
    /\ checkOp = "CheckImportStatusValidity"
    /\ ImportData
    /\ NumFileNames >= 5
    /\ Len(ArticyAssets) = 2
    /\ AllLoad
    /\ Validity = "ImportantAssetMissing"

(***************************************************************************)
(* C6: OnGeneratedCodeChanged opens the dialog exactly for the status      *)
(* FileMissing and calls ForceCompleteReimport (once) exactly when the     *)
(* status is FileMissing and the answer is Yes.                            *)
(***************************************************************************)
C6_ReimportOnlyOnFileMissingAndYes ==
    checkOp = "OnGeneratedCodeChanged" =>
        /\ DialogShown = (Validity = "FileMissing")
        /\ ForceCompleteReimportCalls =
              (IF Validity = "FileMissing" /\ DialogAnswer = "Yes" THEN 1 ELSE 0)

C6_Witness ==
    /\ checkOp = "OnGeneratedCodeChanged"
    /\ Validity = "FileMissing"
    /\ DialogAnswer = "Yes"
    /\ DialogShown
    /\ ForceCompleteReimportCalls = 1

(***************************************************************************)
(* Package lookup: ArticyEditorModule.cpp                                  *)
(***************************************************************************)

\* the most assets the model puts into the asset registry
MaxRegistry == 2

\* engine versions on both sides of each #if
EngineVersions == {<<4, 27>>, <<5, 0>>, <<5, 1>>, <<5, 3>>}

AssetClasses == {"ArticyPackage", "ArticyGlobalVariables", "ArticyDatabase"}

Registries == UNION {[1..k -> [Class : AssetClasses, Loads : BOOLEAN]] : k \in 0..MaxRegistry}

\* IAssetRegistry::GetAssetsByClass: the assets of exactly that class, as indices
GetAssetsByClass(registry, class) ==
    SelectSeq([i \in 1..Len(registry) |-> i], LAMBDA i : registry[i].Class = class)

\* FAssetData::GetAsset(): the loaded object, nullptr when it cannot be loaded
GetAsset(registry, i) == IF registry[i].Loads THEN i ELSE 0

\* Cast<UArticyPackage>(Object): nullptr for nullptr and for an object of another class
CastToArticyPackage(registry, ptr) ==
    IF ptr # 0 /\ registry[ptr].Class = "ArticyPackage" THEN ptr ELSE 0

\* #if ENGINE_MAJOR_VERSION >= 5 && ENGINE_MINOR_VERSION > 0: the class the registry is asked for
QueriedClass(version) ==
    IF version[1] >= 5 /\ version[2] > 0 THEN "ArticyGlobalVariables" ELSE "ArticyPackage"

GetPackagesSlow(version, registry) ==
    LET PackageData == GetAssetsByClass(registry, QueriedClass(version))
    IN  [k \in 1..Len(PackageData) |->
            CastToArticyPackage(registry, GetAsset(registry, PackageData[k]))]

InitPackages ==
    /\ AssetRegistry \in Registries
    /\ EngineVersion \in EngineVersions
    /\ Packages = <<>>
    /\ packagesOp = "none"

CallGetPackagesSlow ==
    /\ Packages' = GetPackagesSlow(EngineVersion, AssetRegistry)
    /\ packagesOp' = "GetPackagesSlow"
    /\ UNCHANGED <<EngineVersion, AssetRegistry, notPackages>>

NextPackages == CallGetPackagesSlow

ArticyPackageAssets == {i \in 1..Len(AssetRegistry) : AssetRegistry[i].Class = "ArticyPackage"}

(***************************************************************************)
(* C7: on every engine version, GetPackagesSlow returns exactly one entry  *)
(* for each UArticyPackage asset of the registry, each entry a non-null    *)
(* UArticyPackage.                                                         *)
(***************************************************************************)
C7_AllPackagesReturned ==
    packagesOp = "GetPackagesSlow" =>
        /\ Len(Packages) = Cardinality(ArticyPackageAssets)
        /\ Range(Packages) = ArticyPackageAssets

(***************************************************************************)
(* Package load settings: ArticyPluginSettings.cpp                         *)
(***************************************************************************)

\* the number of package names the model knows
MaxPackages == 2

PackageNames == 1..MaxPackages

\* the values a TMap<FString, bool> over these names can have
LoadSettingsMaps == UNION {[D -> BOOLEAN] : D \in SUBSET PackageNames}

\* the packages a database can hold: no name twice, listed by name
PackageLists ==
    {pk \in UNION {[1..k -> [Name : PackageNames, bIsDefaultPackage : BOOLEAN]] : k \in 0..MaxPackages} :
        \A i, j \in 1..Len(pk) : i < j => pk[i].Name < pk[j].Name}

\* UArticyDatabase::GetImportedPackageNames
GetImportedPackageNames(pk) == [i \in 1..Len(pk) |-> pk[i].Name]

\* UArticyDatabase::IsPackageDefaultPackage
IsPackageDefaultPackage(pk, Name) ==
    \E i \in 1..Len(pk) : pk[i].Name = Name /\ pk[i].bIsDefaultPackage

\* UArticyDatabase::ChangePackageDefault
ChangePackageDefault(pk, Name, bIsDefault) ==
    [i \in 1..Len(pk) |->
        IF pk[i].Name = Name THEN [pk[i] EXCEPT !.bIsDefaultPackage = bIsDefault] ELSE pk[i]]

\* TMap::Add: a new pair, or the value of an existing key replaced
MapAdd(map, k, v) == [n \in DOMAIN map \cup {k} |-> IF n = k THEN v ELSE map[n]]

\* TMap::Remove
MapRemove(map, k) == [n \in DOMAIN map \ {k} |-> map[n]]

\* for (Name : CurrentNames) if (!ImportedPackageNames.Contains(Name)) PackageLoadSettings.Remove(Name)
RECURSIVE RemoveOutdated(_, _, _)
RemoveOutdated(map, CurrentNames, ImportedPackageNames) ==
    IF CurrentNames = {} THEN map
    ELSE LET Name == CHOOSE n \in CurrentNames : TRUE
         IN  RemoveOutdated(IF Name \notin Range(ImportedPackageNames) THEN MapRemove(map, Name) ELSE map,
                            CurrentNames \ {Name}, ImportedPackageNames)

\* for (Name : ImportedPackageNames) if (!CurrentNames.Contains(Name)) PackageLoadSettings.Add(Name, default)
RECURSIVE AddNew(_, _, _, _)
AddNew(map, CurrentNames, names, pk) ==
    IF names = <<>> THEN map
    ELSE LET Name == Head(names)
         IN  AddNew(IF Name \notin CurrentNames
                    THEN MapAdd(map, Name, IsPackageDefaultPackage(pk, Name)) ELSE map,
                    CurrentNames, Tail(names), pk)

\* the loop of ApplyPreviousSettings over the imported package names
RECURSIVE ApplyLoop(_, _, _)
ApplyLoop(defaults, pk, names) ==
    IF names = <<>> THEN pk
    ELSE LET PackageName == Head(names)
         IN  ApplyLoop(defaults,
                       IF PackageName \in DOMAIN defaults
                       THEN ChangePackageDefault(pk, PackageName, defaults[PackageName])
                       ELSE pk,
                       Tail(names))

\* ApplyPreviousSettings: the database's flags restored from
\* GetDefault<UArticyPluginSettings>()->PackageLoadSettings, the class default object's map
ApplyPreviousSettings(valid, defaults, pk) ==
    IF valid THEN ApplyLoop(defaults, pk, GetImportedPackageNames(pk)) ELSE pk

\* a slip: outdated settings are not removed
UpdatePackageSettings_KeepsOutdated(self, pls, valid, pk) ==
    IF ~valid THEN [PackageLoadSettings |-> pls, ImportedPackages |-> pk]
    ELSE LET ImportedPackageNames == GetImportedPackageNames(pk)
             CurrentNames == DOMAIN pls[self]
             added == AddNew(pls[self], CurrentNames, ImportedPackageNames, pk)
             after == [pls EXCEPT ![self] = added]
         IN  [PackageLoadSettings |-> after,
              ImportedPackages |-> ApplyPreviousSettings(valid, after["CDO"], pk)]

\* UpdatePackageSettings on the settings object self
UpdatePackageSettings(self, pls, valid, pk) ==
    IF ~valid THEN [PackageLoadSettings |-> pls, ImportedPackages |-> pk]
    ELSE LET ImportedPackageNames == GetImportedPackageNames(pk)
             CurrentNames == DOMAIN pls[self]
             kept == RemoveOutdated(pls[self], CurrentNames, ImportedPackageNames)
             added == AddNew(kept, CurrentNames, ImportedPackageNames, pk)
             after == [pls EXCEPT ![self] = added]
         IN  [PackageLoadSettings |-> after,
              ImportedPackages |-> ApplyPreviousSettings(valid, after["CDO"], pk)]

InitSettings ==
    /\ \E m \in LoadSettingsMaps : PackageLoadSettings = [o \in {"CDO"} |-> m]
    /\ DatabaseValid \in BOOLEAN
    /\ ImportedPackages \in (IF DatabaseValid THEN PackageLists ELSE {<<>>})
    /\ Self = "CDO"
    /\ PrevNames = {}
    /\ settingsOp = "none"

\* UpdatePackageSettings, called directly or by the registry's OnFilesLoaded, which
\* every constructed settings object subscribes to
CallUpdatePackageSettings ==
    \E self \in DOMAIN PackageLoadSettings :
        LET r == UpdatePackageSettings(self, PackageLoadSettings, DatabaseValid, ImportedPackages)
        IN  /\ PackageLoadSettings' = r.PackageLoadSettings
            /\ ImportedPackages' = r.ImportedPackages
            /\ Self' = self
            /\ PrevNames' = DOMAIN PackageLoadSettings[self]
            /\ settingsOp' = "UpdatePackageSettings"
            /\ UNCHANGED <<DatabaseValid, notSettings>>

\* UArticyPluginSettings::Get(): NewObject<UArticyPluginSettings>() when the static weak
\* pointer holds none; the new object's properties start as the class default object's
CallGet ==
    /\ PackageLoadSettings' =
          IF "Instance" \in DOMAIN PackageLoadSettings THEN PackageLoadSettings
          ELSE [o \in {"CDO", "Instance"} |-> PackageLoadSettings["CDO"]]
    /\ settingsOp' = "Get"
    /\ Self' = "CDO"
    /\ PrevNames' = {}
    /\ UNCHANGED <<DatabaseValid, ImportedPackages, notSettings>>

\* an import replaces the original database's packages
ImportDatabase ==
    /\ \E pk \in PackageLists : ImportedPackages' = pk
    /\ DatabaseValid' = TRUE
    /\ settingsOp' = "ImportDatabase"
    /\ Self' = "CDO"
    /\ PrevNames' = {}
    /\ UNCHANGED <<PackageLoadSettings, notSettings>>

NextSettings ==
    \/ CallUpdatePackageSettings
    \/ CallGet
    \/ ImportDatabase

ImportedNames == Range(GetImportedPackageNames(ImportedPackages))

(***************************************************************************)
(* C8: with a valid database, after UpdatePackageSettings the keys of      *)
(* PackageLoadSettings are exactly the database's imported package names.  *)
(***************************************************************************)
C8_KeysAreImportedNames ==
    (settingsOp = "UpdatePackageSettings" /\ DatabaseValid) =>
        DOMAIN PackageLoadSettings[Self] = ImportedNames

C8_Witness ==
    /\ settingsOp = "UpdatePackageSettings"
    /\ DatabaseValid
    /\ PrevNames \ DOMAIN PackageLoadSettings[Self] # {}
    /\ DOMAIN PackageLoadSettings[Self] \ PrevNames # {}

(***************************************************************************)
(* C9: UpdatePackageSettings keeps the stored boolean of every name that   *)
(* was a key before the call and is still imported, and after the call the *)
(* database's default flag of that package equals the stored boolean.      *)
(***************************************************************************)
C9_UserValuesKeptAndApplied ==
    [][(settingsOp' = "UpdatePackageSettings" /\ DatabaseValid) =>
        \A n \in DOMAIN PackageLoadSettings[Self'] \cap ImportedNames :
            /\ PackageLoadSettings'[Self'][n] = PackageLoadSettings[Self'][n]
            /\ IsPackageDefaultPackage(ImportedPackages', n) = PackageLoadSettings'[Self'][n]]_vars

(***************************************************************************)
(* Global variables code: GlobalVarsGenerator.cpp. An FString is a         *)
(* sequence of pieces, + is \o; a file's content is a sequence of lines.   *)
(***************************************************************************)

\* the most namespaces the model puts into the import data
MaxNamespaces == 2

TechnicalNames == {"ProjA", "ProjB", "ProjC"}

\* FArticyGVNamespace values (with their FArticyGVar variables)
GVNamespaces ==
    {[Namespace |-> "GameState", CppTypename |-> "UProjGameStateVariables",
      Variables |-> <<[Variable |-> "Score", CPPTypeString |-> "UArticyInt", CPPValueString |-> "0"]>>],
     [Namespace |-> "Player", CppTypename |-> "UProjPlayerVariables", Variables |-> <<>>]}

\* a null UArticyImportData pointer, and the import data a non-null one points to
NullData == [IsNull |-> TRUE]

ImportDatas ==
    [IsNull : {FALSE},
     TechnicalName : TechnicalNames,
     Namespaces : UNION {[1..k -> GVNamespaces] : k \in 0..MaxNamespaces}]

\* what the caller's OutFile may hold before the call
InitialOutFiles == {<<>>, <<"Stale">>, <<"ProjA", "GlobalVariables">>}

\* CodeGenerator::GetGlobalVarsClassname(Data, bOmittPrefix)
GetGlobalVarsClassname(data, bOmittPrefix) ==
    (IF bOmittPrefix THEN <<>> ELSE <<"U">>) \o <<data.TechnicalName, "GlobalVariables">>

RECURSIVE Flatten(_)
Flatten(ss) == IF ss = <<>> THEN <<>> ELSE Head(ss) \o Flatten(Tail(ss))

Map(s, Op(_)) == [i \in 1..Len(s) |-> Op(s[i])]

\* header->Class(Classname, Comment, bUClass, Content)
Class(Classname, Content) ==
    << <<"UCLASS">>, <<"class ">> \o Classname, <<"{">> >> \o Content \o << <<"};">> >>

\* header->Variable(Type, Name, Value, ...)
Variable(Type, Name, Value) == Type \o <<" ", Name, " = ", Value, ";">>

\* header->Method(ReturnType, Name, Parameters, Content)
Method(ReturnType, Name, Parameters, Content) ==
    << <<ReturnType, " ">> \o Name \o <<"(", Parameters, ")">>, <<"{">> >> \o Content \o << <<"}">> >>

\* the class generated for one namespace, after an empty line
NamespaceClass(ns) ==
    << <<>> >> \o
    Class(<<ns.CppTypename, " : public UArticyBaseVariableSet">>,
          << <<"public:">> >>
          \o Map(ns.Variables, LAMBDA var : Variable(<<var.CPPTypeString, "*">>, var.Variable, "nullptr"))
          \o << <<>> >>
          \o Method("", <<ns.CppTypename>>, "",
                Map(ns.Variables, LAMBDA var :
                    <<var.Variable, " = CreateDefaultSubobject<", var.CPPTypeString, ">(\"", var.Variable, "\");">>))
          \o << <<>> >>
          \o Method("void", <<"Init">>, "UArticyGlobalVariables* const Store",
                Flatten(Map(ns.Variables, LAMBDA var :
                    << <<var.Variable, "->Init<", var.CPPTypeString, ">(this, Store, TEXT(\"",
                         ns.Namespace, ".", var.Variable, "\"), ", var.CPPValueString, ");">>,
                       <<"this->Variables.Add(", var.Variable, ");">> >>))))

\* the UArticyGlobalVariables class of the project
GlobalVariablesClass(data) ==
    LET type == GetGlobalVarsClassname(data, FALSE)
    IN  Class(type \o <<" : public UArticyGlobalVariables">>,
          << <<"public:">> >>
          \o Map(data.Namespaces, LAMBDA ns : Variable(<<ns.CppTypename, "*">>, ns.Namespace, "nullptr"))
          \o << <<>> >>
          \o Method("", type, "",
                Map(data.Namespaces, LAMBDA ns :
                    <<ns.Namespace, " = CreateDefaultSubobject<", ns.CppTypename, ">(\"", ns.Namespace, "\");">>)
                \o << <<>>, <<"Init();">> >>)
          \o << <<>> >>
          \o Method("void", <<"Init">>, "",
                Flatten(Map(data.Namespaces, LAMBDA ns :
                    << <<ns.Namespace, "->Init(this);">>,
                       <<"this->VariableSets.Add(", ns.Namespace, ");">> >>)))
          \o << <<>> >>
          \o Method("static ", type \o <<"* GetDefault">>, "const UObject* WorldContext",
                << <<"return static_cast<">> \o type
                     \o <<"*>(UArticyGlobalVariables::GetDefault(WorldContext));">> >>))

\* the lines the lambda passed to CodeFileGenerator writes
HeaderLines(data, outFile) ==
    << <<"#include \"CoreUObject.h\"">>,
       <<"#include \"ArticyGlobalVariables.h\"">>,
       <<"#include \"">> \o outFile \o <<".generated.h\"">>,
       <<"#if !((defined(PLATFORM_PS4) && PLATFORM_PS4) || (defined(PLATFORM_PS5) && PLATFORM_PS5))">>,
       <<"#pragma warning(push)">>,
       <<"#pragma warning(disable: 4883)">>,
       <<"#endif">> >>
    \o Flatten(Map(data.Namespaces, NamespaceClass))
    \o << <<>> >>
    \o GlobalVariablesClass(data)
    \o << <<"#if !((defined(PLATFORM_PS4) && PLATFORM_PS4) || (defined(PLATFORM_PS5) && PLATFORM_PS5))">>,
          <<"#pragma warning(pop)">>,
          <<"#endif">> >>

\* CodeFileGenerator(Path, bHeader, ContentGenerator): one file with the content's lines
CodeFileGenerator(Path, bHeader, Lines) == [Path |-> Path, bHeader |-> bHeader, Lines |-> Lines]

\* a slip: the file is named after the class name with its U prefix
GenerateCode_PrefixedFile(data, outFile) ==
    IF data.IsNull THEN [OutFile |-> outFile, Files |-> <<>>]
    ELSE LET out == GetGlobalVarsClassname(data, TRUE)
         IN  [OutFile |-> out,
              Files |-> <<CodeFileGenerator(GetGlobalVarsClassname(data, FALSE) \o <<".h">>, TRUE,
                                            HeaderLines(data, out))>>]

\* GenerateCode(Data, OutFile): the new OutFile and the files written
GenerateCode(data, outFile) ==
    \* if (!ensure(Data)) return;
    IF data.IsNull THEN [OutFile |-> outFile, Files |-> <<>>]
    ELSE LET out == GetGlobalVarsClassname(data, TRUE)
         IN  [OutFile |-> out,
              Files |-> <<CodeFileGenerator(out \o <<".h">>, TRUE, HeaderLines(data, out))>>]

InitGen ==
    /\ Data \in {NullData} \cup ImportDatas
    /\ OutFile \in InitialOutFiles
    /\ OutFileBefore = OutFile
    /\ GeneratedFiles = <<>>
    /\ genOp = "none"

CallGenerateCode ==
    LET r == GenerateCode(Data, OutFile)
    IN  /\ OutFile' = r.OutFile
        /\ GeneratedFiles' = r.Files
        /\ OutFileBefore' = OutFile
        /\ genOp' = "GenerateCode"
        /\ UNCHANGED <<Data, notGen>>

NextGen == CallGenerateCode

(***************************************************************************)
(* C10: GenerateCode with a null import data pointer writes no file and    *)
(* leaves OutFile as it was; with import data it sets OutFile to the       *)
(* global variables class name and writes exactly one header, named        *)
(* OutFile + ".h", which includes OutFile + ".generated.h".                *)
(***************************************************************************)
C10_GenerateCode ==
    genOp = "GenerateCode" =>
        IF Data.IsNull
        THEN OutFile = OutFileBefore /\ GeneratedFiles = <<>>
        ELSE /\ OutFile = <<Data.TechnicalName, "GlobalVariables">>
             /\ Len(GeneratedFiles) = 1
             /\ GeneratedFiles[1].bHeader
             /\ GeneratedFiles[1].Path = OutFile \o <<".h">>
             /\ \E i \in 1..Len(GeneratedFiles[1].Lines) :
                    GeneratedFiles[1].Lines[i] = <<"#include \"">> \o OutFile \o <<".generated.h\"">>

C10_Witness ==
    /\ genOp = "GenerateCode"
    /\ ~Data.IsNull
    /\ OutFileBefore = <<"Stale">>
    /\ Len(Data.Namespaces) = 2
    /\ Len(GeneratedFiles) = 1
    /\ GeneratedFiles[1].Path = <<"ProjB", "GlobalVariables", ".h">>

(***************************************************************************)
(* Tooltip image: SArticyObjectToolTip.cpp. A brush is the image it shows  *)
(* (where it came from, which texture or which type) and its size.         *)
(***************************************************************************)

\* the number of preview textures the model knows
MaxTextures == 2

ArticyTypes == {"FlowFragment", "Dialogue", "DialogueFragment", "Hub", "Entity"}

\* the objects a tooltip is made for. PreviewImage: 0 = the object has no preview image;
\* SpeakerImage: -1 = the object has no speaker, 0 = its speaker has no preview image
ArticyObjects ==
    [PreviewImage : 0..MaxTextures, SpeakerImage : -1..MaxTextures, Type : ArticyTypes]

\* a default-constructed FSlateBrush
DefaultBrush == [Source |-> "None", Texture |-> 0, Type |-> "", ImageSize |-> "Default"]

\* UserInterfaceHelperFunctions::RetrievePreviewImage(Object, OutBrush)
RetrievePreviewImage(obj, brush) ==
    IF obj.PreviewImage > 0
    THEN [Result |-> TRUE,
          Brush |-> [brush EXCEPT !.Source = "ObjectPreview", !.Texture = obj.PreviewImage]]
    ELSE [Result |-> FALSE, Brush |-> brush]

\* UserInterfaceHelperFunctions::RetrieveSpeakerPreviewImage(Object, OutBrush)
RetrieveSpeakerPreviewImage(obj, brush) ==
    IF obj.SpeakerImage > 0
    THEN [Result |-> TRUE,
          Brush |-> [brush EXCEPT !.Source = "SpeakerPreview", !.Texture = obj.SpeakerImage]]
    ELSE [Result |-> FALSE, Brush |-> brush]

\* *UserInterfaceHelperFunctions::GetArticyTypeImage(Object, Size)
GetArticyTypeImage(obj, size) ==
    [Source |-> "TypeImage", Texture |-> 0, Type |-> obj.Type, ImageSize |-> size]

\* a slip: the speaker's image is looked up whether or not the object has its own
Construct_AlwaysSpeaker(obj) ==
    LET sized == [DefaultBrush EXCEPT !.ImageSize = "64x64"]
        preview == RetrievePreviewImage(obj, sized)
        speaker == RetrieveSpeakerPreviewImage(obj, preview.Brush)
    IN  IF preview.Result \/ speaker.Result
        THEN [TooltipBrush |-> speaker.Brush,
              PreviewLookups |-> 1, SpeakerLookups |-> 1, TypeImageLookups |-> 0]
        ELSE [TooltipBrush |-> GetArticyTypeImage(obj, "Large"),
              PreviewLookups |-> 1, SpeakerLookups |-> 1, TypeImageLookups |-> 1]

\* SArticyObjectToolTip::Construct: the brush it leaves, and the lookups it made
Construct(obj) ==
    \* TooltipBrush.ImageSize = FVector2D(64.f, 64.f)
    LET sized == [DefaultBrush EXCEPT !.ImageSize = "64x64"]
        preview == RetrievePreviewImage(obj, sized)
        speaker == RetrieveSpeakerPreviewImage(obj, preview.Brush)
    IN  IF preview.Result
        THEN [TooltipBrush |-> preview.Brush,
              PreviewLookups |-> 1, SpeakerLookups |-> 0, TypeImageLookups |-> 0]
        ELSE IF speaker.Result
        THEN [TooltipBrush |-> speaker.Brush,
              PreviewLookups |-> 1, SpeakerLookups |-> 1, TypeImageLookups |-> 0]
        ELSE [TooltipBrush |-> GetArticyTypeImage(obj, "Large"),
              PreviewLookups |-> 1, SpeakerLookups |-> 1, TypeImageLookups |-> 1]

\* const FSlateBrush* GetTooltipImage() const { return &TooltipBrush; }
GetTooltipImage(brush) == brush

InitTooltip ==
    /\ ObjectToDisplay \in ArticyObjects
    /\ TooltipBrush = DefaultBrush
    /\ PreviewLookups = 0
    /\ SpeakerLookups = 0
    /\ TypeImageLookups = 0
    /\ TooltipImage = DefaultBrush
    /\ tooltipOp = "none"

\* the widget is constructed once
CallConstruct ==
    /\ tooltipOp = "none"
    /\ LET r == Construct(ObjectToDisplay)
       IN  /\ TooltipBrush' = r.TooltipBrush
           /\ PreviewLookups' = r.PreviewLookups
           /\ SpeakerLookups' = r.SpeakerLookups
           /\ TypeImageLookups' = r.TypeImageLookups
    /\ tooltipOp' = "Construct"
    /\ UNCHANGED <<ObjectToDisplay, TooltipImage, notTooltip>>

\* the SImage of the tooltip content asks for its image
CallGetTooltipImage ==
    /\ tooltipOp # "none"
    /\ TooltipImage' = GetTooltipImage(TooltipBrush)
    /\ tooltipOp' = "GetTooltipImage"
    /\ UNCHANGED <<ObjectToDisplay, TooltipBrush, PreviewLookups, SpeakerLookups,
                   TypeImageLookups, notTooltip>>

NextTooltip ==
    \/ CallConstruct
    \/ CallGetTooltipImage

(***************************************************************************)
(* C11: after Construct the tooltip shows the object's own preview image   *)
(* if it has one, else its speaker's preview image if there is one, else   *)
(* the large type image; the speaker's image is not looked up when the     *)
(* object has a preview image, and the type image is fetched only when     *)
(* both lookups failed.                                                    *)
(***************************************************************************)
C11_ImageFallback ==
    tooltipOp # "none" =>
        /\ PreviewLookups = 1
        /\ IF ObjectToDisplay.PreviewImage > 0
           THEN /\ TooltipBrush.Source = "ObjectPreview"
                /\ TooltipBrush.Texture = ObjectToDisplay.PreviewImage
                /\ SpeakerLookups = 0
                /\ TypeImageLookups = 0
           ELSE IF ObjectToDisplay.SpeakerImage > 0
           THEN /\ TooltipBrush.Source = "SpeakerPreview"
                /\ TooltipBrush.Texture = ObjectToDisplay.SpeakerImage
                /\ SpeakerLookups = 1
                /\ TypeImageLookups = 0
           ELSE /\ TooltipBrush.Source = "TypeImage"
                /\ TooltipBrush.Type = ObjectToDisplay.Type
                /\ TooltipBrush.ImageSize = "Large"
                /\ SpeakerLookups = 1
                /\ TypeImageLookups = 1
        /\ (tooltipOp = "GetTooltipImage" => TooltipImage = TooltipBrush)

C11_Witness ==
    /\ tooltipOp = "Construct"
    /\ ObjectToDisplay.PreviewImage > 0
    /\ ObjectToDisplay.SpeakerImage > 0
    /\ ObjectToDisplay.SpeakerImage # ObjectToDisplay.PreviewImage
    /\ TooltipBrush.Source = "ObjectPreview"
    /\ SpeakerLookups = 0

(***************************************************************************)
(* Specifications: one per part of the plugin, the other parts at rest     *)
(***************************************************************************)

IdleQueue == InitQueue

IdleValidity ==
    /\ ImportData = FALSE
    /\ NumFileNames = 0
    /\ ArticyAssets = <<>>
    /\ Validity = "none"
    /\ DialogShown = FALSE
    /\ ForceCompleteReimportCalls = 0
    /\ DialogAnswer = "No"
    /\ checkOp = "none"

IdlePackages ==
    /\ EngineVersion = <<5, 3>>
    /\ AssetRegistry = <<>>
    /\ Packages = <<>>
    /\ packagesOp = "none"

IdleSettings ==
    /\ PackageLoadSettings = [o \in {"CDO"} |-> <<>>]
    /\ DatabaseValid = FALSE
    /\ ImportedPackages = <<>>
    /\ Self = "CDO"
    /\ PrevNames = {}
    /\ settingsOp = "none"

IdleGen ==
    /\ Data = NullData
    /\ OutFile = <<>>
    /\ OutFileBefore = <<>>
    /\ GeneratedFiles = <<>>
    /\ genOp = "none"

IdleTooltip ==
    /\ ObjectToDisplay = [PreviewImage |-> 0, SpeakerImage |-> -1, Type |-> "Entity"]
    /\ TooltipBrush = DefaultBrush
    /\ PreviewLookups = 0
    /\ SpeakerLookups = 0
    /\ TypeImageLookups = 0
    /\ TooltipImage = DefaultBrush
    /\ tooltipOp = "none"

InitSpecQueue == InitQueue /\ IdleValidity /\ IdlePackages /\ IdleSettings /\ IdleGen /\ IdleTooltip
InitSpecValidity == IdleQueue /\ InitValidity /\ IdlePackages /\ IdleSettings /\ IdleGen /\ IdleTooltip
InitSpecPackages == IdleQueue /\ IdleValidity /\ InitPackages /\ IdleSettings /\ IdleGen /\ IdleTooltip
InitSpecSettings == IdleQueue /\ IdleValidity /\ IdlePackages /\ InitSettings /\ IdleGen /\ IdleTooltip
InitSpecGen == IdleQueue /\ IdleValidity /\ IdlePackages /\ IdleSettings /\ InitGen /\ IdleTooltip
InitSpecTooltip == IdleQueue /\ IdleValidity /\ IdlePackages /\ IdleSettings /\ IdleGen /\ InitTooltip

SpecQueue == InitSpecQueue /\ [][NextQueue]_vars
SpecValidity == InitSpecValidity /\ [][NextValidity]_vars
SpecPackages == InitSpecPackages /\ [][NextPackages]_vars
SpecSettings == InitSpecSettings /\ [][NextSettings]_vars
SpecGen == InitSpecGen /\ [][NextGen]_vars
SpecTooltip == InitSpecTooltip /\ [][NextTooltip]_vars

====
